---- MODULE Spec2Model ----
(***************************************************************************)
(* bcnotif: feed acquisition (scrape, whitelist/blacklist filter, sort,    *)
(* dedup), configuration loading and the per-feed spike resolution.        *)
(*                                                                         *)
(* One variable set serves several specifications, one per component:      *)
(*   SpecFilter   filter_whitelist_blacklist on a Vec<Feed>                *)
(*   SpecAcquire  Feed::download_and_scrape                                *)
(*   SpecResolve  Config::get_feed_spike / WeekdaySpike::get_for_today     *)
(*   SpecConfig   Config::from_file and the generated ParseYaml impls      *)
(*   SpecScrape   scrape_top / scrape_state                                *)
(* A specification leaves the variables of the other components at Idle.   *)
(***************************************************************************)
EXTENDS Integers, Sequences, FiniteSets, TLC

VARIABLES
    pc,        \* position of the modelled call: "start", "done", ...
    config,    \* the Config the call reads (the fields the component uses)
    feeds,     \* the Vec<Feed> handed to the filter, before the call
    filtered,  \* the same Vec<Feed> after filter_whitelist_blacklist
    top,       \* outcome of FeedSource::Top.download_and_scrape
    state,     \* outcome of FeedSource::State(id).download_and_scrape
    outcome,   \* what Feed::download_and_scrape returned
    clock,     \* weekday of the process clock (Local::today().weekday())
    call,      \* arguments of the resolver call: the feed and the caller's weekday
    spike,     \* the &Spike the resolver returned, as the place it borrows from
    config_file,  \* the config file, as read_file and the YAML loader find it
    loaded,    \* what Config::from_file returned
    page,      \* the HTML document handed to a scraper
    scraped    \* what the scraper returned

vars == <<pc, config, feeds, filtered, top, state, outcome, clock, call, spike,
          config_file, loaded, page, scraped>>

Idle == "idle"

-----------------------------------------------------------------------------
(* Bounds and input pools *)

MaxFeeds == 2      \* longest Vec<Feed> handed to the filter
MaxList == 2       \* longest whitelist and blacklist
MaxScraped == 2    \* most feeds one scraped page yields
MaxSettings == 2   \* longest feed_settings
MaxRows == 2       \* most tr rows in one table of a page

\* u32: TLC's integers are 32-bit signed, so a u32 is kept exactly, as its two
\* 16-bit halves. `num as u32` keeps the low 32 bits of num.
as_u32(num) == [hi |-> (num \div 65536) % 65536, lo |-> num % 65536]
u32_lt(a, b) == a.hi < b.hi \/ (a.hi = b.hi /\ a.lo < b.lo)
u32_le(a, b) == a = b \/ u32_lt(a, b)

\* Option<T>
None == [some |-> FALSE]
Some(v) == [some |-> TRUE, val |-> v]

\* Result<T, E>
Ok(v) == [ok |-> TRUE, val |-> v]
Err(e) == [ok |-> FALSE, err |-> e]

\* Sequences over S of length lo..hi
SeqsBetween(S, lo, hi) == UNION {[1..n -> S] : n \in lo..hi}

FeedIds == {as_u32(1), as_u32(2)}
Names == {"alpha", "beta"}
Counties == {"X"}
StateIds == {as_u32(7)}

\* struct Feed: the fields an ident can match (listeners and alert are never
\* read by the filter, the sort, the dedup or the resolver)
Feeds == [id : FeedIds, name : Names, county : Counties, state_id : StateIds]

\* enum FeedIdent { Name(String), ID(u32), County(String), State(u32) }: each
\* variant carries its payload in a field of its own
Ident(tag, val) ==
    CASE tag = "Name" -> [tag |-> tag, name |-> val]
      [] tag = "ID" -> [tag |-> tag, id |-> val]
      [] tag = "County" -> [tag |-> tag, county |-> val]
      [] tag = "State" -> [tag |-> tag, state_id |-> val]
FilterIdents == {Ident("ID", as_u32(1)), Ident("Name", "alpha"),
                 Ident("County", "X"), Ident("State", as_u32(8))}

-----------------------------------------------------------------------------
(* FeedIdent::matches_feed *)

matches_feed(ident, feed) ==
    CASE ident.tag = "Name" -> ident.name = feed.name
      [] ident.tag = "ID" -> ident.id = feed.id
      [] ident.tag = "County" -> ident.county = feed.county
      [] ident.tag = "State" -> ident.state_id = feed.state_id

\* Iterator::any is an existential over the Vec's positions; Vec::retain is
\* SelectSeq: it keeps, in order, the elements the closure accepts.

\* a plausible slip: a feed is kept only when every whitelist entry matches it
whitelist_keeps_all(cfg, feed) ==
    \A i \in 1..Len(cfg.whitelist) : matches_feed(cfg.whitelist[i], feed)

\* the closure of the first retain: config.whitelist.iter().any(|e| e.matches_feed(feed))
whitelist_keeps(cfg, feed) ==
    \E i \in 1..Len(cfg.whitelist) : matches_feed(cfg.whitelist[i], feed)

\* the closure of the second retain: config.blacklist.iter().any(|e| !e.matches_feed(feed))
blacklist_keeps(cfg, feed) ==
    \E i \in 1..Len(cfg.blacklist) : ~matches_feed(cfg.blacklist[i], feed)

\* the first half of filter_whitelist_blacklist: feeds after the whitelist retain
whitelist_step(cfg, fs) ==
    LET W(feed) == whitelist_keeps(cfg, feed)
    IN IF Len(cfg.whitelist) > 0 THEN SelectSeq(fs, W) ELSE fs

filter_whitelist_blacklist(cfg, fs) ==
    LET B(feed) == blacklist_keeps(cfg, feed)
        afterWhite == whitelist_step(cfg, fs)
    IN IF Len(cfg.blacklist) > 0 THEN SelectSeq(afterWhite, B) ELSE afterWhite

-----------------------------------------------------------------------------
(* Vec::sort_by_key(|feed| feed.id) and Vec::dedup under impl PartialEq for Feed *)

\* x goes before the first element whose key is not smaller: x stood before
\* them in the input, so equal keys keep their input order (the sort is stable)
RECURSIVE insert_by_key(_, _)
insert_by_key(x, s) ==
    IF s = <<>> THEN <<x>>
    ELSE IF u32_le(x.id, Head(s).id) THEN <<x>> \o s
    ELSE <<Head(s)>> \o insert_by_key(x, Tail(s))

\* a plausible slip: the sort is left out before the dedup
sort_skipped(s) == s

RECURSIVE sort_by_key(_)
sort_by_key(s) ==
    IF s = <<>> THEN <<>> ELSE insert_by_key(Head(s), sort_by_key(Tail(s)))

\* a plausible slip: equality derived over all the fields
feed_eq_derived(a, b) == a = b

\* impl PartialEq for Feed: self.id == other.id
feed_eq(a, b) == a.id = b.id

\* Vec::dedup: of each run of consecutive equal elements the first is kept
RECURSIVE dedup(_)
dedup(s) ==
    IF Len(s) <= 1 THEN s
    ELSE IF feed_eq(s[1], s[2]) THEN dedup(<<s[1]>> \o Tail(Tail(s)))
    ELSE <<s[1]>> \o dedup(Tail(s))

-----------------------------------------------------------------------------
(* FeedSource and Feed::download_and_scrape *)

\* What the network and the scraper hand back for one source: the download
\* fails, or the body is scraped into an error or into a non-empty Vec<Feed>.
DownloadFailed == [kind |-> "download_failed"]
ScrapeFailed(e) == [kind |-> "scrape_failed", error |-> e]
Scraped(fs) == [kind |-> "scraped", feeds |-> fs]
NotFetched == [kind |-> "not_fetched"]

\* FeedSource::download_page: Err(Reqwest | Io) or the body
download_page(source, fetched) ==
    IF fetched.kind = "download_failed" THEN Err([kind |-> "Reqwest", cause |-> "none"])
    ELSE Ok(fetched)

\* FeedSource::scrape: the scraper's error chained under TopFeeds / StateFeeds
scrape(source, body) ==
    IF body.kind = "scrape_failed"
    THEN Err([kind |-> IF source = "Top" THEN "TopFeeds" ELSE "StateFeeds",
              cause |-> body.error])
    ELSE Ok(body.feeds)

\* FeedSource::download_and_scrape
source_download_and_scrape(source, fetched) ==
    LET body == download_page(source, fetched)
    IN IF ~body.ok THEN body ELSE scrape(source, body.val)

\* a plausible slip: a failed state fetch is tolerated, the top feeds go on alone
state_feeds_or_empty(cfg, fetched) ==
    LET r == source_download_and_scrape("State", fetched)
    IN IF cfg.misc.state_feeds_id = None \/ ~r.ok THEN Ok(<<>>) ELSE r

\* lines 46-51: the state feeds to append, none when state_feeds_id is None
state_feeds(cfg, fetched) ==
    IF cfg.misc.state_feeds_id = None THEN Ok(<<>>)
    ELSE source_download_and_scrape("State", fetched)

\* Feed::download_and_scrape; merged and kept expose the Vec before and after
\* filter_whitelist_blacklist
download_and_scrape(cfg, topFetched, stateFetched) ==
    LET t == source_download_and_scrape("Top", topFetched)
        s == state_feeds(cfg, stateFetched)
        merged == t.val \o s.val
        kept == filter_whitelist_blacklist(cfg, merged)
    IN IF ~t.ok THEN [result |-> t, merged |-> Idle, kept |-> Idle]
       ELSE IF ~s.ok THEN [result |-> s, merged |-> Idle, kept |-> Idle]
       ELSE [result |-> Ok(dedup(sort_by_key(kept))), merged |-> merged,
             kept |-> kept]

-----------------------------------------------------------------------------
(* WeekdaySpike::get_for_today and Config::get_feed_spike *)

\* chrono::Weekday -> the WeekdaySpike variant the match arm pairs it with
VariantOf ==
    [Mon |-> "Monday", Tue |-> "Tuesday", Wed |-> "Wednesday",
     Thu |-> "Thursday", Fri |-> "Friday", Sat |-> "Saturday", Sun |-> "Sunday"]

\* the for loop of get_for_today from position i on: the first case whose
\* variant pairs with weekday, as its position in the slice
RECURSIVE first_case_from(_, _, _)
first_case_from(weekday_spikes, weekday, i) ==
    IF i > Len(weekday_spikes) THEN None
    ELSE IF weekday_spikes[i].day = VariantOf[weekday] THEN Some(i)
    ELSE first_case_from(weekday_spikes, weekday, i + 1)

\* a plausible slip: the loop does not return at the first hit, the last one stands
get_for_today_last(weekday_spikes) ==
    LET hits == {i \in 1..Len(weekday_spikes) :
                    weekday_spikes[i].day = VariantOf[clock]}
    IN IF hits = {} THEN None
       ELSE Some(CHOOSE i \in hits : \A j \in hits : j <= i)

\* WeekdaySpike::get_for_today: the weekday is read from the process clock
\* (Local::today().weekday()); Some(i) borrows the Spike of weekday_spikes[i]
get_for_today(weekday_spikes) ==
    LET weekday == clock IN first_case_from(weekday_spikes, weekday, 1)

\* a plausible slip: rfind, the last matching FeedSetting
find_last_feed_setting(cfg, feed) ==
    LET hits == {i \in 1..Len(cfg.feed_settings) :
                    matches_feed(cfg.feed_settings[i].ident, feed)}
    IN IF hits = {} THEN None
       ELSE Some(CHOOSE i \in hits : \A j \in hits : j <= i)

\* self.feed_settings.iter().find(|s| s.ident.matches_feed(feed)), as a position
find_feed_setting(cfg, feed) ==
    LET hits == {i \in 1..Len(cfg.feed_settings) :
                    matches_feed(cfg.feed_settings[i].ident, feed)}
    IN IF hits = {} THEN None
       ELSE Some(CHOOSE i \in hits : \A j \in hits : i <= j)

\* The &Spike returned, as the place in the Config it borrows from
SpikeRef(src, setting, case) == [src |-> src, setting |-> setting, case |-> case]

\* Config::get_feed_spike
get_feed_spike(cfg, feed) ==
    LET feed_setting == find_feed_setting(cfg, feed)
    IN IF feed_setting.some
       THEN LET setting == cfg.feed_settings[feed_setting.val]
                today == get_for_today(setting.weekday_spikes)
            IN IF today.some
               THEN SpikeRef("feed_settings.weekday_spikes", feed_setting.val, today.val)
               ELSE SpikeRef("feed_settings.spike", feed_setting.val, 0)
       ELSE LET today == get_for_today(cfg.weekday_spikes)
            IN IF today.some
               THEN SpikeRef("weekday_spikes", 0, today.val)
               ELSE SpikeRef("global_spike", 0, 0)

-----------------------------------------------------------------------------
(* The Config fields the components read; the rest stay at their defaults *)

\* f32, in ten-thousandths (every literal of the source and of the modelled
\* documents is a whole number of them); NaN compares false with everything
F32(units) == [nan |-> FALSE, units |-> units]
F32NaN == [nan |-> TRUE, units |-> 0]
f32_lt(a, b) == ~a.nan /\ ~b.nan /\ a.units < b.units

\* impl Default for Spike / UnskewedAverage / Misc (get_default! of each field)
DefaultSpike ==
    [jump |-> F32(3000), low_listener_increase |-> F32(50),
     high_listener_dec |-> F32(200), high_listener_dec_every |-> F32(1000000)]
DefaultUnskewedAverage ==
    [reset_pcnt |-> F32(1500), adjust_pcnt |-> F32(75),
     spikes_required |-> as_u32(1), jump_required |-> F32(40000)]
DefaultMisc ==
    [update_time |-> F32(60000), minimum_listeners |-> as_u32(15),
     state_feeds_id |-> None, max_feeds |-> as_u32(10)]

\* Config::default() (sorting is read by none of the modelled operations)
DefaultConfig ==
    [global_spike |-> DefaultSpike, unskewed_avg |-> DefaultUnskewedAverage,
     weekday_spikes |-> <<>>, feed_settings |-> <<>>, misc |-> DefaultMisc,
     blacklist |-> <<>>, whitelist |-> <<>>]

FilterConfigs ==
    {[DefaultConfig EXCEPT !.whitelist = w, !.blacklist = b] :
        w \in SeqsBetween(FilterIdents, 0, MaxList),
        b \in SeqsBetween(FilterIdents, 0, MaxList)}

-----------------------------------------------------------------------------
(* SpecFilter: filter_whitelist_blacklist applied to any Vec<Feed> *)

InitFilter ==
    /\ pc = "start"
    /\ config \in FilterConfigs
    /\ feeds \in SeqsBetween(Feeds, 0, MaxFeeds)
    /\ filtered = Idle
    /\ top = Idle /\ state = Idle /\ outcome = Idle
    /\ clock = Idle /\ call = Idle /\ spike = Idle
    /\ config_file = Idle /\ loaded = Idle
    /\ page = Idle /\ scraped = Idle

Filter ==
    /\ pc = "start"
    /\ filtered' = [white |-> whitelist_step(config, feeds),
                    out |-> filter_whitelist_blacklist(config, feeds)]
    /\ pc' = "done"
    /\ UNCHANGED <<config, feeds, top, state, outcome, clock, call, spike,
                   config_file, loaded, page, scraped>>

NextFilter == Filter

SpecFilter == InitFilter /\ [][NextFilter]_vars

Range(s) == {s[i] : i \in 1..Len(s)}

\* a is b with some elements left out, the others in their order
RECURSIVE IsSubseq(_, _)
IsSubseq(a, b) ==
    IF a = <<>> THEN TRUE
    ELSE IF b = <<>> THEN FALSE
    ELSE IF Head(a) = Head(b) THEN IsSubseq(Tail(a), Tail(b))
    ELSE IsSubseq(a, Tail(b))

WhitelistMatches(feed) == \E e \in Range(config.whitelist) : matches_feed(e, feed)
BlacklistMatches(feed) == \E e \in Range(config.blacklist) : matches_feed(e, feed)

\* C1: with a non-empty blacklist, a feed that passed the whitelist step
\* survives the filter if and only if no blacklist ident matches it.
C1_BlacklistedFeedRemoved ==
    (pc = "done" /\ Len(config.blacklist) > 0) =>
        \A f \in Range(filtered.white) :
            (f \in Range(filtered.out)) <=> ~BlacklistMatches(f)

\* C9: a non-empty whitelist keeps exactly the feeds some whitelist ident
\* matches, an empty one keeps all; the survivors of the whole filter are
\* records of the input, in their input order.
C9_WhitelistStep ==
    pc = "done" =>
        /\ Len(config.whitelist) > 0 =>
               filtered.white = SelectSeq(feeds, WhitelistMatches)
        /\ Len(config.whitelist) = 0 => filtered.white = feeds
        /\ IsSubseq(filtered.out, feeds)

\* C9 witness: a two-entry whitelist whose second entry alone matches a kept
\* feed, while another feed is dropped.
C9_Witness ==
    /\ pc = "done"
    /\ Len(config.whitelist) = 2
    /\ Len(feeds) = 2
    /\ Len(filtered.white) = 1
    /\ ~matches_feed(config.whitelist[1], filtered.white[1])
    /\ matches_feed(config.whitelist[2], filtered.white[1])
    /\ filtered.out = filtered.white

-----------------------------------------------------------------------------
(* SpecAcquire: one call of Feed::download_and_scrape *)

AcquireIdents == {Ident("ID", as_u32(1)), Ident("Name", "alpha")}
\* the top listing and the listing of state 7 share feed ids
TopPool == {f \in Feeds : ~(f.id = as_u32(2) /\ f.name = "beta")}
StatePool == {f \in Feeds : f.name = "beta"}
AcquireScrapeErrors == {"NoneFound", "NoElement"}

Fetches(pool) ==
    {DownloadFailed} \cup {ScrapeFailed(e) : e \in AcquireScrapeErrors}
        \cup {Scraped(fs) : fs \in SeqsBetween(pool, 1, MaxScraped)}

AcquireConfigs ==
    {[DefaultConfig EXCEPT !.whitelist = w, !.blacklist = b, !.misc.state_feeds_id = i] :
        w \in SeqsBetween(AcquireIdents, 0, MaxList),
        b \in SeqsBetween(AcquireIdents, 0, MaxList),
        i \in {None} \cup {Some(id) : id \in StateIds}}

InitAcquire ==
    /\ pc = "start"
    /\ config \in AcquireConfigs
    /\ top \in Fetches(TopPool)
    /\ state \in IF config.misc.state_feeds_id = None THEN {NotFetched}
                 ELSE Fetches(StatePool)
    /\ feeds = Idle /\ filtered = Idle /\ outcome = Idle
    /\ clock = Idle /\ call = Idle /\ spike = Idle
    /\ config_file = Idle /\ loaded = Idle
    /\ page = Idle /\ scraped = Idle

Acquire ==
    /\ pc = "start"
    /\ LET r == download_and_scrape(config, top, state)
       IN /\ outcome' = r.result
          /\ feeds' = r.merged
          /\ filtered' = r.kept
    /\ pc' = "done"
    /\ UNCHANGED <<config, top, state, clock, call, spike, config_file, loaded, page,
                   scraped>>

NextAcquire == Acquire

SpecAcquire == InitAcquire /\ [][NextAcquire]_vars

Ids(s) == {s[i].id : i \in 1..Len(s)}

\* C5: a successful acquisition is sorted ascending by id, holds no two
\* records of one id, and holds exactly one record, taken from the filtered
\* Vec, for every id that survived the filter.
C5_SortedUniqueIds ==
    (pc = "done" /\ outcome.ok) =>
        /\ \A i, j \in 1..Len(outcome.val) :
               i < j => u32_lt(outcome.val[i].id, outcome.val[j].id)
        /\ Ids(outcome.val) = Ids(filtered)
        /\ Range(outcome.val) \subseteq Range(filtered)

\* C5 witness: the top and the state listing carry the same id under
\* different names, out of id order, and both survive the filter.
C5_Witness ==
    /\ pc = "done" /\ outcome.ok
    /\ Len(filtered) = 3
    /\ filtered[1].id = as_u32(2)
    /\ filtered[2].id = as_u32(1) /\ filtered[3].id = as_u32(1)
    /\ filtered[2].name # filtered[3].name
    /\ Len(outcome.val) = 2

TopFailed == top.kind # "scraped"
StateFailed == config.misc.state_feeds_id # None /\ state.kind # "scraped"

\* C8: when the top fetch fails, or the state fetch that follows a good top
\* fetch fails, the call returns an error and no feed list; a failed top
\* scrape is tagged TopFeeds, a failed state scrape StateFeeds.
C8_AllOrNothing ==
    pc = "done" =>
        /\ (TopFailed \/ StateFailed) => ~outcome.ok
        /\ top.kind = "scrape_failed" =>
               outcome = Err([kind |-> "TopFeeds", cause |-> top.error])
        /\ (~TopFailed /\ config.misc.state_feeds_id # None
                /\ state.kind = "scrape_failed") =>
               outcome = Err([kind |-> "StateFeeds", cause |-> state.error])
        /\ ~outcome.ok => DOMAIN outcome = {"ok", "err"}

\* C8 witness: the top listing was scraped, the state scrape failed.
C8_Witness ==
    /\ pc = "done"
    /\ top.kind = "scraped"
    /\ config.misc.state_feeds_id # None
    /\ state.kind = "scrape_failed"
    /\ ~outcome.ok /\ outcome.err.kind = "StateFeeds"

-----------------------------------------------------------------------------
(* SpecResolve: calls of Config::get_feed_spike while the clock moves on *)

ClockDays == {"Mon", "Tue"}
ConfigDays == {"Monday", "Tuesday"}
\* Vec<WeekdaySpike>: each case carries its own Spike, named by its position
DayLists == SeqsBetween([day : ConfigDays], 0, 2)
ResolveIdents == {Ident("ID", as_u32(1)), Ident("County", "X")}
ResolveFeeds == {f \in Feeds : f.name = "alpha"}

\* struct FeedSetting (its own spike is named by the setting's position)
FeedSettings == [ident : ResolveIdents, weekday_spikes : DayLists]

ResolveConfigs ==
    {[DefaultConfig EXCEPT !.feed_settings = fs, !.weekday_spikes = ws] :
        fs \in SeqsBetween(FeedSettings, 0, MaxSettings), ws \in DayLists}

InitResolve ==
    /\ pc = "start"
    /\ config \in ResolveConfigs
    /\ clock \in ClockDays
    /\ call = Idle /\ spike = Idle
    /\ feeds = Idle /\ filtered = Idle
    /\ top = Idle /\ state = Idle /\ outcome = Idle
    /\ config_file = Idle /\ loaded = Idle
    /\ page = Idle /\ scraped = Idle

\* The statistics engine asks for the spike of a feed. today is the weekday
\* the caller holds for this call; get_feed_spike has no parameter for it.
\* at records the clock the call ran under.
Resolve(feed, today) ==
    /\ call' = [feed |-> feed, today |-> today, at |-> clock]
    /\ spike' = get_feed_spike(config, feed)
    /\ pc' = "resolved"
    /\ UNCHANGED <<config, clock, feeds, filtered, top, state, outcome, config_file,
                   loaded, page, scraped>>

\* Midnight passes between two calls of one process
Tick ==
    /\ \E d \in ClockDays \ {clock} : clock' = d
    /\ UNCHANGED <<pc, config, call, spike, feeds, filtered, top, state,
                   outcome, config_file, loaded, page, scraped>>

NextResolve ==
    \/ \E feed \in ResolveFeeds, today \in ClockDays : Resolve(feed, today)
    \/ Tick

SpecResolve == InitResolve /\ [][NextResolve]_vars

MatchingSettings ==
    {i \in 1..Len(config.feed_settings) :
        matches_feed(config.feed_settings[i].ident, call.feed)}
FirstMatchingSetting == CHOOSE i \in MatchingSettings : \A j \in MatchingSettings : i <= j
\* positions of the cases of ws for the weekday the call ran under
CasesFor(ws) == {j \in 1..Len(ws) : ws[j].day = VariantOf[call.at]}
FirstCaseFor(ws) == CHOOSE j \in CasesFor(ws) : \A k \in CasesFor(ws) : j <= k

\* C2: when some feed_setting matches the feed, the result is the Spike of
\* the first case for today in the first matching setting's weekday_spikes,
\* otherwise that setting's own spike; never a later setting's, nor
\* config.weekday_spikes, nor config.global_spike.
C2_FirstMatchingSetting ==
    (pc = "resolved" /\ MatchingSettings # {}) =>
        LET i == FirstMatchingSetting
            ws == config.feed_settings[i].weekday_spikes
        IN spike = IF CasesFor(ws) # {}
                   THEN SpikeRef("feed_settings.weekday_spikes", i, FirstCaseFor(ws))
                   ELSE SpikeRef("feed_settings.spike", i, 0)

\* C2 witness: two settings match the feed, the first has no case for today
\* and the second has one: the first setting's own spike is returned.
C2_Witness ==
    /\ pc = "resolved"
    /\ MatchingSettings = {1, 2}
    /\ CasesFor(config.feed_settings[1].weekday_spikes) = {}
    /\ CasesFor(config.feed_settings[2].weekday_spikes) # {}
    /\ CasesFor(config.weekday_spikes) # {}
    /\ spike = SpikeRef("feed_settings.spike", 1, 0)

\* C3: when no feed_setting matches the feed, the result is the Spike of the
\* first case for today in config.weekday_spikes, otherwise
\* config.global_spike; the resolver always returns one of the Config's spikes.
C3_GlobalFallback ==
    pc = "resolved" =>
        /\ MatchingSettings = {} =>
               spike = IF CasesFor(config.weekday_spikes) # {}
                       THEN SpikeRef("weekday_spikes", 0,
                                     FirstCaseFor(config.weekday_spikes))
                       ELSE SpikeRef("global_spike", 0, 0)
        /\ spike.src \in {"feed_settings.weekday_spikes", "feed_settings.spike",
                          "weekday_spikes", "global_spike"}

\* C3 witness: no setting matches, config.weekday_spikes names today twice,
\* and the first of the two cases is returned.
C3_Witness ==
    /\ pc = "resolved"
    /\ Len(config.feed_settings) > 0
    /\ MatchingSettings = {}
    /\ CasesFor(config.weekday_spikes) = {1, 2}
    /\ spike = SpikeRef("weekday_spikes", 0, 1)

\* C4: two resolutions with the same config, the same feed and the same
\* weekday supplied by the caller return the same Spike, whatever the
\* process clock shows (the config never changes in a run).
C4_PureInSuppliedWeekday ==
    [][(pc = "resolved" /\ pc' = "resolved" /\ call'.feed = call.feed
            /\ call'.today = call.today) => spike' = spike]_vars

-----------------------------------------------------------------------------
(* yaml_rust::Yaml nodes, and the ParseYaml implementations of config/mod.rs *)

BadValue == [y |-> "BadValue"]
YInteger(num) == [y |-> "Integer", int |-> num]
\* Real holds the literal's text; the text is stood for by the number it
\* denotes, in ten-thousandths, or by the fact that it reads "NaN"
YReal(units) == [y |-> "Real", nan |-> FALSE, units |-> units]
YRealNaN == [y |-> "Real", nan |-> TRUE, units |-> 0]
YString(s) == [y |-> "String", str |-> s]
YArray(items) == [y |-> "Array", items |-> items]
\* a Hash is a function from its keys to nodes
YHash(map) == [y |-> "Hash", map |-> map]

\* Index<&str> for Yaml: BadValue unless the node is a Hash holding the key
yaml_index(node, key) ==
    IF node.y = "Hash"
    THEN IF key \in DOMAIN node.map THEN node.map[key] ELSE BadValue
    ELSE BadValue

\* Yaml::as_vec().unwrap_or(&Vec::new())
as_vec_or_empty(node) == IF node.y = "Array" THEN node.items ELSE <<>>

\* str::parse::<f32>() of a Real's text
parse_f32(node) == IF node.nan THEN F32NaN ELSE F32(node.units)

\* impl ParseYaml for u32 / f32. A Real's text never parses as u32: the
\* loader makes a scalar a Real only after it failed to parse as an integer.
numeric_from(t, node) ==
    CASE node.y = "Integer" ->
            Some(IF t = "u32" THEN as_u32(node.int) ELSE F32(node.int * 10000))
      [] node.y = "Real" -> IF t = "f32" THEN Some(parse_f32(node)) ELSE None
      [] OTHER -> None

\* impl ParseYaml for String
string_from(node) == IF node.y = "String" THEN Some(node.str) ELSE None

leaf_from(t, node) == IF t = "String" THEN string_from(node) ELSE numeric_from(t, node)

unwrap_or(option, default) == IF option.some THEN option.val ELSE default

\* gen_struct_value!(parent, disp_name, default_expr)
value_or(parent, disp_name, t, default) ==
    unwrap_or(numeric_from(t, yaml_index(parent, disp_name)), default)

\* gen_struct_value!(parent, disp_name, [min, default]), on f32 fields
value_min(parent, disp_name, min, default) ==
    LET result == value_or(parent, disp_name, "f32", default)
    IN IF f32_lt(result, min) THEN min ELSE result

\* ParseYaml for Spike (always Some: no field has the fail rule)
Spike_from(doc) ==
    Some([jump |-> value_or(doc, "Jump Required", "f32", F32(3000)),
          low_listener_increase |->
              value_min(doc, "Low Listener Increase", F32(0), F32(50)),
          high_listener_dec |->
              value_min(doc, "High Listener Decrease", F32(0), F32(200)),
          high_listener_dec_every |->
              value_min(doc, "High Listener Decrease Per Listeners",
                        F32(10000), F32(1000000))])

\* ParseYaml for UnskewedAverage
UnskewedAverage_from(doc) ==
    Some([reset_pcnt |->
              value_min(doc, "Reset To Average Percentage", F32(0), F32(1500)),
          adjust_pcnt |->
              value_min(doc, "Adjust to Average Percentage", F32(0), F32(75)),
          spikes_required |-> value_or(doc, "Spikes Required", "u32", as_u32(1)),
          jump_required |->
              value_min(doc, "Jump Required To Set", F32(11000), F32(40000))])

\* ParseYaml for Misc
Misc_from(doc) ==
    Some([update_time |-> value_min(doc, "Update Time", F32(50000), F32(60000)),
          minimum_listeners |->
              value_or(doc, "Minimum Listeners", "u32", as_u32(15)),
          state_feeds_id |-> numeric_from("u32", yaml_index(doc, "State Feeds ID")),
          max_feeds |->
              value_or(doc, "Maximum Feeds To Display", "u32", as_u32(10))])

\* create_config_enum!: the variants in declaration order, each with the key
\* it is read from and the type of its payload
FeedIdentVariants ==
    << [tag |-> "Name", key |-> "Name", t |-> "String"],
       [tag |-> "ID", key |-> "ID", t |-> "u32"],
       [tag |-> "County", key |-> "County", t |-> "String"],
       [tag |-> "State", key |-> "State ID", t |-> "u32"] >>

\* ParseYaml for FeedIdent, from variant i on: the first variant whose key is
\* present and whose value parses
RECURSIVE FeedIdent_from_variant(_, _)
FeedIdent_from_variant(doc, i) ==
    IF i > Len(FeedIdentVariants) THEN None
    ELSE LET variant == FeedIdentVariants[i]
             elem == yaml_index(doc, variant.key)
             v == leaf_from(variant.t, elem)
         IN IF elem.y # "BadValue" /\ v.some
            THEN Some(Ident(variant.tag, v.val))
            ELSE FeedIdent_from_variant(doc, i + 1)

FeedIdent_from(doc) == FeedIdent_from_variant(doc, 1)

WeekdaySpikeVariants ==
    << "Sunday", "Monday", "Tuesday", "Wednesday", "Thursday", "Friday", "Saturday" >>

\* ParseYaml for WeekdaySpike: Spike_from never fails, so the first variant
\* whose key is present wins
RECURSIVE WeekdaySpike_from_variant(_, _)
WeekdaySpike_from_variant(doc, i) ==
    IF i > Len(WeekdaySpikeVariants) THEN None
    ELSE LET elem == yaml_index(doc, WeekdaySpikeVariants[i])
             v == Spike_from(elem)
         IN IF elem.y # "BadValue" /\ v.some
            THEN Some([day |-> WeekdaySpikeVariants[i], spike |-> v.val])
            ELSE WeekdaySpike_from_variant(doc, i + 1)

WeekdaySpike_from(doc) == WeekdaySpike_from_variant(doc, 1)

\* a plausible slip: collecting into Option<Vec<_>>, so that one entry that
\* fails to parse empties the list
collect_all_or_nothing(options) ==
    IF \E i \in 1..Len(options) : ~options[i].some THEN <<>>
    ELSE [i \in 1..Len(options) |-> options[i].val]

\* the filter_map(..).collect() of ParseYaml::all, on the entries already
\* mapped through from: the Some values, in order
RECURSIVE collect_some(_)
collect_some(options) ==
    IF options = <<>> THEN <<>>
    ELSE IF Head(options).some
         THEN <<Head(options).val>> \o collect_some(Tail(options))
         ELSE collect_some(Tail(options))

\* ParseYaml::all for WeekdaySpike
all_WeekdaySpike(doc) ==
    LET items == as_vec_or_empty(doc)
    IN collect_some([i \in 1..Len(items) |-> WeekdaySpike_from(items[i])])

\* ParseYaml for FeedSetting: ident has the fail rule, `?` returns None from
\* FeedSetting::from when the ident does not parse
FeedSetting_from(doc) ==
    LET ident == FeedIdent_from(doc)
    IN IF ~ident.some THEN None
       ELSE Some([ident |-> ident.val,
                  spike |-> unwrap_or(Spike_from(yaml_index(doc, "Spike Percentages")),
                                      DefaultSpike),
                  weekday_spikes |->
                      all_WeekdaySpike(yaml_index(doc, "Weekday Spike Percentages"))])

\* ParseYaml::all for FeedSetting and for FeedIdent
all_FeedSetting(doc) ==
    LET items == as_vec_or_empty(doc)
    IN collect_some([i \in 1..Len(items) |-> FeedSetting_from(items[i])])

all_FeedIdent(doc) ==
    LET items == as_vec_or_empty(doc)
    IN collect_some([i \in 1..Len(items) |-> FeedIdent_from(items[i])])

\* What util::read_file and YamlLoader::load_from_str make of the file; a
\* file of blank lines or comments loads as no document at all
Unreadable == [kind |-> "unreadable"]
EmptyFile == [kind |-> "empty"]
ScanFailure == [kind |-> "scan_error"]
NoDocument == [kind |-> "no_document"]
Document(root) == [kind |-> "document", root |-> root]

\* Config::from_file
from_file(file) ==
    CASE file.kind = "unreadable" -> Err("Io")
      [] file.kind = "empty" -> Ok(DefaultConfig)
      [] file.kind = "scan_error" -> Err("YAMLScan")
      [] file.kind = "no_document" -> Err("panic: index out of bounds")
      [] file.kind = "document" ->
            LET root == file.root
            IN Ok([global_spike |->
                       unwrap_or(Spike_from(yaml_index(root, "Spike Percentage")),
                                 DefaultSpike),
                   unskewed_avg |->
                       unwrap_or(UnskewedAverage_from(yaml_index(root, "Unskewed Average")),
                                 DefaultUnskewedAverage),
                   weekday_spikes |->
                       all_WeekdaySpike(yaml_index(root, "Weekday Spike Percentages")),
                   feed_settings |-> all_FeedSetting(yaml_index(root, "Feed Settings")),
                   misc |-> unwrap_or(Misc_from(yaml_index(root, "Misc")), DefaultMisc),
                   blacklist |-> all_FeedIdent(yaml_index(root, "Blacklist")),
                   whitelist |-> all_FeedIdent(yaml_index(root, "Whitelist"))])

-----------------------------------------------------------------------------
(* SpecConfig: one load of the config file *)

\* scalars a numeric key may hold
Scalars ==
    {BadValue, YString("x"), YInteger(-1), YInteger(0), YInteger(7),
     YReal(10500), YRealNaN}

SpikeKeys ==
    {"Jump Required", "Low Listener Increase", "High Listener Decrease",
     "High Listener Decrease Per Listeners"}
UnskewedAverageKeys ==
    {"Reset To Average Percentage", "Adjust to Average Percentage",
     "Spikes Required", "Jump Required To Set"}
MiscKeys ==
    {"Update Time", "Minimum Listeners", "State Feeds ID", "Maximum Feeds To Display"}

\* one entry of a list of idents or of feed settings
Entry(name, id, county, state_id) ==
    YHash([k \in {"Name", "ID", "County", "State ID"} |->
              CASE k = "Name" -> name [] k = "ID" -> id [] k = "County" -> county
                [] k = "State ID" -> state_id])
Entries ==
    {YString("alpha"), Entry(BadValue, BadValue, BadValue, YInteger(7))} \cup
    {Entry(name, id, county, BadValue) :
        name \in {BadValue, YString("alpha"), YInteger(1)},
        id \in {BadValue, YInteger(1), YInteger(-1), YReal(15000)},
        county \in {BadValue, YString("X")}}

\* the root Hash with one category present
Root(category, node) == YHash([k \in {category} |-> node])

Sections(category, keys) ==
    {Root(category, YHash(map)) : map \in [keys -> Scalars]}
        \cup {Root(category, YString("x"))}

Lists(category, longest) ==
    {Root(category, YArray(items)) : items \in SeqsBetween(Entries, 0, longest)}
        \cup {Root(category, YString("x"))}

Files ==
    {Unreadable, EmptyFile, ScanFailure, NoDocument} \cup
    {Document(root) :
        root \in Sections("Spike Percentage", SpikeKeys)
                 \cup Sections("Unskewed Average", UnskewedAverageKeys)
                 \cup Sections("Misc", MiscKeys)
                 \cup Lists("Feed Settings", MaxSettings)
                 \cup Lists("Blacklist", 1) \cup Lists("Whitelist", 1)}

InitConfig ==
    /\ pc = "start"
    /\ config_file \in Files
    /\ loaded = Idle
    /\ config = Idle /\ feeds = Idle /\ filtered = Idle
    /\ top = Idle /\ state = Idle /\ outcome = Idle
    /\ clock = Idle /\ call = Idle /\ spike = Idle
    /\ page = Idle /\ scraped = Idle

\* Config::from_file(path)
Load ==
    /\ pc = "start"
    /\ loaded' = from_file(config_file)
    /\ pc' = "done"
    /\ UNCHANGED <<config_file, config, feeds, filtered, top, state, outcome, clock,
                   call, spike, page, scraped>>

NextConfig == Load

SpecConfig == InitConfig /\ [][NextConfig]_vars

\* the entries of the document's "Feed Settings" list
SettingEntries == as_vec_or_empty(yaml_index(config_file.root, "Feed Settings"))

\* an entry has an ident when one of the four keys holds a value of its type
IsA(node, y) == node.y = y
HasIdent(entry) ==
    \/ IsA(yaml_index(entry, "Name"), "String")
    \/ IsA(yaml_index(entry, "ID"), "Integer")
    \/ IsA(yaml_index(entry, "County"), "String")
    \/ IsA(yaml_index(entry, "State ID"), "Integer")

C7_Fields ==
    << [category |-> "Spike Percentage", key |-> "Jump Required",
        group |-> "global_spike", field |-> "jump", min |-> F32(0)],
       [category |-> "Spike Percentage", key |-> "Low Listener Increase",
        group |-> "global_spike", field |-> "low_listener_increase", min |-> F32(0)],
       [category |-> "Spike Percentage", key |-> "High Listener Decrease",
        group |-> "global_spike", field |-> "high_listener_dec", min |-> F32(0)],
       [category |-> "Spike Percentage", key |-> "High Listener Decrease Per Listeners",
        group |-> "global_spike", field |-> "high_listener_dec_every",
        min |-> F32(10000)],
       [category |-> "Unskewed Average", key |-> "Reset To Average Percentage",
        group |-> "unskewed_avg", field |-> "reset_pcnt", min |-> F32(0)],
       [category |-> "Unskewed Average", key |-> "Adjust to Average Percentage",
        group |-> "unskewed_avg", field |-> "adjust_pcnt", min |-> F32(0)],
       [category |-> "Unskewed Average", key |-> "Jump Required To Set",
        group |-> "unskewed_avg", field |-> "jump_required", min |-> F32(11000)],
       [category |-> "Misc", key |-> "Update Time",
        group |-> "misc", field |-> "update_time", min |-> F32(50000)] >>

\* field i of a loaded document: a number below the minimum is stored as the
\* minimum, a number at or above it is stored unchanged
C7_Clamped(i) ==
    LET f == C7_Fields[i]
        raw == numeric_from("f32", yaml_index(yaml_index(config_file.root, f.category), f.key))
        stored == loaded.val[f.group][f.field]
    IN (raw.some /\ ~raw.val.nan) =>
           stored = IF raw.val.units < f.min.units THEN f.min ELSE raw.val

\* C7: every numeric field with a declared minimum (Spike.jump >= 0,
\* low_listener_increase >= 0, high_listener_dec >= 0,
\* high_listener_dec_every >= 1, reset_pcnt >= 0, adjust_pcnt >= 0,
\* jump_required >= 1.1, update_time >= 5.0) is stored as the minimum when the
\* document's value is below it, and unchanged when at or above it.
C7_ClampToMinimum ==
    (pc = "done" /\ config_file.kind = "document") =>
        \A i \in 1..Len(C7_Fields) : C7_Clamped(i)

\* the same for the seven fields other than Spike.jump
C7_ClampToMinimumButJump ==
    (pc = "done" /\ config_file.kind = "document") =>
        \A i \in 2..Len(C7_Fields) : C7_Clamped(i)

-----------------------------------------------------------------------------
(* feed/scrape.rs. A text that the code parses is a sequence of characters. A
   page is the sequence of its elements of class btable, in document order,
   none nested in another; a table is the sequence of its tr rows; a row is
   the sequence of its td cells; a cell has its classes, its hyperlinks and
   its text. *)

Digits == <<"0", "1", "2", "3", "4", "5", "6", "7", "8", "9">>
IsDigit(c) == \E d \in 1..Len(Digits) : Digits[d] = c
DigitValue(c) == (CHOOSE d \in 1..Len(Digits) : Digits[d] = c) - 1

\* the number a run of digits denotes (the modelled pages keep every number
\* under ten digits, which no u32 overflow can reach)
RECURSIVE digits_value(_)
digits_value(text) ==
    IF text = <<>> THEN 0
    ELSE digits_value(SubSeq(text, 1, Len(text) - 1)) * 10
             + DigitValue(text[Len(text)])

\* str::parse::<u32>(): an optional "+", then at least one digit, only digits
parse_u32(text) ==
    LET digits == IF text # <<>> /\ Head(text) = "+" THEN Tail(text) ELSE text
    IN IF digits # <<>> /\ \A i \in 1..Len(digits) : IsDigit(digits[i])
       THEN Ok(as_u32(digits_value(digits)))
       ELSE Err("ParseIntError")

\* str::trim_right()
RECURSIVE trim_right(_)
trim_right(text) ==
    IF text # <<>> /\ text[Len(text)] \in {" ", "\n", "\t"}
    THEN trim_right(SubSeq(text, 1, Len(text) - 1))
    ELSE text

\* str::starts_with
starts_with(text, prefix) ==
    Len(text) >= Len(prefix) /\ SubSeq(text, 1, Len(prefix)) = prefix

\* parse_link_id: what follows the last "/", unless nothing follows it
parse_link_id(url) ==
    LET slashes == {i \in 1..Len(url) : url[i] = "/"}
    IN IF slashes = {} THEN None
       ELSE LET pos == CHOOSE i \in slashes : \A j \in slashes : j <= i
            IN IF pos >= Len(url) THEN None
               ELSE Some(SubSeq(url, pos + 1, Len(url)))

\* enum ScrapeError
NoElement(name) == [kind |-> "NoElement", name |-> name]
FailedIntParse(name) == [kind |-> "FailedIntParse", name |-> name]
NoneFound == [kind |-> "NoneFound"]

\* every hyperlink of a row, in document order
RECURSIVE row_links(_)
row_links(row) ==
    IF row = <<>> THEN <<>> ELSE Head(row).links \o row_links(Tail(row))

\* node.find(Class(class_name).descendant(Name("a"))).next()
first_link_under(node, class_name) ==
    LET cells == SelectSeq(node, LAMBDA cell :
                     class_name \in cell.classes /\ cell.links # <<>>)
    IN IF cells = <<>> THEN None ELSE Some(Head(cells).links[1])

\* parse_id_and_name
parse_id_and_name(node, class_name) ==
    LET base == first_link_under(node, class_name)
    IN IF ~base.some THEN Err(NoElement("id and name"))
       ELSE LET href == base.val.href
                link_id == IF href.some THEN parse_link_id(href.val) ELSE None
            IN IF ~link_id.some THEN Err(NoElement("feed id"))
               ELSE LET id == parse_u32(link_id.val)
                    IN IF ~id.ok THEN Err(FailedIntParse("state id"))
                       ELSE Ok([id |-> id.val, name |-> base.val.text])

\* parse_listeners
parse_listeners(node) ==
    LET cells == SelectSeq(node, LAMBDA cell : {"c", "m"} \subseteq cell.classes)
    IN IF cells = <<>> THEN Err(NoElement("feed listeners"))
       ELSE LET result == parse_u32(trim_right(Head(cells).text))
            IN IF ~result.ok THEN Err(FailedIntParse("feed listeners"))
               ELSE Ok(result.val)

CtidPrefix == <<"/", "l", "i", "s", "t", "e", "n", "/", "c", "t", "i", "d">>

\* the body of the for loop of scrape_top: the Feed of one row, or the error
\* its first failing step returns
scrape_top_row(row) ==
    LET id_name == parse_id_and_name(row, "w100")
    IN IF ~id_name.ok THEN id_name
       ELSE IF Len(row) < 2 THEN Err(NoElement("location"))
       ELSE LET hyperlinks == SelectSeq(row[2].links, LAMBDA link : link.href.some)
            IN IF hyperlinks = <<>> THEN Err(NoElement("state data"))
               ELSE LET state_link == parse_link_id(hyperlinks[1].href.val)
                    IN IF ~state_link.some THEN Err(NoElement("state id"))
                       ELSE LET state_id == parse_u32(state_link.val)
                                county ==
                                    IF Len(hyperlinks) >= 2
                                       /\ starts_with(hyperlinks[2].href.val, CtidPrefix)
                                    THEN hyperlinks[2].text
                                    ELSE "Numerous"
                                listeners == parse_listeners(row)
                            IN IF ~state_id.ok THEN Err(FailedIntParse("state id"))
                               ELSE IF ~listeners.ok THEN listeners
                               ELSE Ok([id |-> id_name.val.id,
                                        name |-> id_name.val.name,
                                        county |-> county,
                                        state_id |-> state_id.val,
                                        listeners |-> listeners.val])

\* the body of the for loop of scrape_state
scrape_state_row(state_id, row) ==
    LET id_name == parse_id_and_name(row, "w1p")
        links == row_links(row)
        county == IF links = <<>> THEN "Numerous" ELSE links[1].text
        listeners == parse_listeners(row)
    IN IF ~id_name.ok THEN id_name
       ELSE IF ~listeners.ok THEN listeners
       ELSE Ok([id |-> id_name.val.id, name |-> id_name.val.name,
                county |-> county, state_id |-> state_id,
                listeners |-> listeners.val])

\* the for loop of either scraper: `?` leaves at the first row that fails
RECURSIVE feeds_of_rows(_, _, _)
feeds_of_rows(scraper, state_id, rows) ==
    IF rows = <<>> THEN Ok(<<>>)
    ELSE LET feed == IF scraper = "top" THEN scrape_top_row(Head(rows))
                     ELSE scrape_state_row(state_id, Head(rows))
         IN IF ~feed.ok THEN feed
            ELSE LET rest == feeds_of_rows(scraper, state_id, Tail(rows))
                 IN IF ~rest.ok THEN rest ELSE Ok(<<feed.val>> \o rest.val)

\* Iterator::skip(1) and Iterator::take(n)
skip_one(s) == IF s = <<>> THEN <<>> ELSE Tail(s)
take(s, n) == SubSeq(s, 1, IF Len(s) < n THEN Len(s) ELSE n)

\* a plausible slip: the is_empty check is left out
ok_even_if_empty(found) == Ok(found)

\* if feeds.is_empty() { return Err(ScrapeError::NoneFound); } Ok(feeds)
none_found_if_empty(found) == IF found = <<>> THEN Err(NoneFound) ELSE Ok(found)

\* doc.find(Class("btable").descendant(Name("tr"))): the rows of every table
RECURSIVE all_rows(_)
all_rows(tables) ==
    IF tables = <<>> THEN <<>> ELSE Head(tables) \o all_rows(Tail(tables))

\* scrape_top
scrape_top(body) ==
    LET feed_data == skip_one(all_rows(body))
        found == feeds_of_rows("top", None, feed_data)
    IN IF ~found.ok THEN found ELSE none_found_if_empty(found.val)

\* a plausible slip: the areawide table is not skipped
first_table(tables) == tables[1]

\* else if tables.len() >= 2 { tables[1] } else { tables[0] }
second_or_only_table(tables) == IF Len(tables) >= 2 THEN tables[2] ELSE tables[1]

\* scrape_state
scrape_state(state_id, body) ==
    LET tables == take(body, 2)
    IN IF tables = <<>> THEN Err(NoElement("feed data"))
       ELSE LET table == second_or_only_table(tables)
                found == feeds_of_rows("state", state_id, skip_one(table))
            IN IF ~found.ok THEN found ELSE none_found_if_empty(found.val)

-----------------------------------------------------------------------------
(* SpecScrape: one call of one scraper on one page *)

Link(href, text) == [href |-> Some(href), text |-> text]
Cell(classes, links, text) == [classes |-> classes, links |-> links, text |-> text]

HeaderCell == Cell({}, <<>>, <<"I", "D">>)
IdCell(classes, href) == Cell(classes, <<Link(href, "alpha")>>, <<>>)
LocationCell ==
    Cell({}, <<Link(<<"/", "s", "/", "7">>, "XX"),
               Link(CtidPrefix \o <<"/", "3">>, "X")>>, <<>>)
CountyCell == Cell({}, <<Link(CtidPrefix \o <<"/", "3">>, "X")>>, <<>>)
ListenersCell(text) == Cell({"c", "m"}, <<>>, text)

HeaderRow == <<HeaderCell, HeaderCell, HeaderCell>>
TopRow == <<IdCell({"w100"}, <<"/", "f", "/", "1">>), LocationCell,
            ListenersCell(<<"1", "2", " ">>)>>
StateRow == <<CountyCell, IdCell({"w1p"}, <<"/", "f", "/", "2">>),
              ListenersCell(<<"5">>)>>
BadIdRow == <<IdCell({"w100", "w1p"}, <<"/", "f", "/", "x">>), LocationCell,
              ListenersCell(<<"5">>)>>
NoListenersRow == <<IdCell({"w100", "w1p"}, <<"/", "f", "/", "1">>), LocationCell>>
\* a state row without a county link: its first hyperlink is the id anchor
OtherStateRow == <<IdCell({"w1p"}, <<"/", "f", "/", "3">>), ListenersCell(<<"8">>)>>

Rows == {HeaderRow, TopRow, StateRow, OtherStateRow, BadIdRow}
\* a top row whose state link does not end in a number
BadStateIdRow ==
    <<IdCell({"w100"}, <<"/", "f", "/", "1">>),
      Cell({}, <<Link(<<"/", "s", "/", "x">>, "XX")>>, <<>>),
      ListenersCell(<<"5">>)>>
\* a row whose listeners cell does not hold a number
BadListenersRow ==
    <<IdCell({"w100", "w1p"}, <<"/", "f", "/", "1">>), LocationCell,
      ListenersCell(<<"n", "/", "a">>)>>
FailingRows == {NoListenersRow, BadStateIdRow, BadListenersRow}
Tables == SeqsBetween(Rows, 0, MaxRows)
\* pages of up to two tables; pages of one table that may hold any row; pages
\* of three short tables
Pages ==
    SeqsBetween(Tables, 0, 2)
        \cup {<<table>> : table \in SeqsBetween(Rows \cup FailingRows, 0, MaxRows)}
        \cup [1..3 -> SeqsBetween(Rows, 0, 1)]

\* the State a caller hands to scrape_state
CallerStateIds == {as_u32(7), as_u32(9)}

InitScrape ==
    /\ pc = "start"
    /\ page \in Pages
    /\ scraped = Idle
    /\ config = Idle /\ feeds = Idle /\ filtered = Idle
    /\ top = Idle /\ state = Idle /\ outcome = Idle
    /\ clock = Idle /\ call = Idle /\ spike = Idle
    /\ config_file = Idle /\ loaded = Idle

ScrapeTop ==
    /\ pc = "start"
    /\ scraped' = [scraper |-> "top", result |-> scrape_top(page)]
    /\ pc' = "scraped"
    /\ UNCHANGED <<page, config, feeds, filtered, top, state, outcome, clock,
                   call, spike, config_file, loaded>>

ScrapeState(state_id) ==
    /\ pc = "start"
    /\ scraped' = [scraper |-> "state", state_id |-> state_id,
                   result |-> scrape_state(state_id, page)]
    /\ pc' = "scraped"
    /\ UNCHANGED <<page, config, feeds, filtered, top, state, outcome, clock,
                   call, spike, config_file, loaded>>

NextScrape ==
    \/ ScrapeTop
    \/ \E state_id \in CallerStateIds : ScrapeState(state_id)

SpecScrape == InitScrape /\ [][NextScrape]_vars

\* the table whose rows the scraper called is meant to read: for scrape_top
\* the page's one table, for scrape_state the second table, or the only one
HasFeedTable ==
    IF scraped.scraper = "top" THEN Len(page) = 1 ELSE Len(page) >= 1
FeedTable ==
    IF scraped.scraper = "state" /\ Len(page) >= 2 THEN page[2] ELSE page[1]

\* C10: scrape_top and scrape_state never return Ok of an empty sequence; a
\* page whose feed table has its header row and no data row yields NoneFound.
C10_NeverEmptySuccess ==
    pc = "scraped" =>
        /\ scraped.result.ok => Len(scraped.result.val) >= 1
        /\ (HasFeedTable /\ Len(FeedTable) = 1) => scraped.result = Err(NoneFound)

\* C10 witness: scrape_state on a page of two tables, the first with a data
\* row and the second with its header alone, returned NoneFound.
C10_Witness ==
    /\ pc = "scraped"
    /\ scraped.scraper = "state"
    /\ page = <<<<HeaderRow, StateRow>>, <<HeaderRow>>>>
    /\ scraped.result = Err(NoneFound)

\* the rows scrape_state can make a Feed of, and the id each one's anchor names
IsStateRow(row) == row \in {StateRow, OtherStateRow}
StateRowId(row) == IF row = StateRow THEN as_u32(2) ELSE as_u32(3)
\* the rows after the header of the table scrape_state is to read
StateDataRows == IF FeedTable = <<>> THEN <<>> ELSE Tail(FeedTable)

\* C11: scrape_state on a page without a feed table fails with NoElement; on
\* a page with two (or more) it reads the second table only and on a page
\* with one it reads that one: the header row is skipped, the call succeeds
\* exactly when there is a data row and every data row of that table yields
\* a Feed, the feeds are those rows' feeds in order, and each carries the
\* state the caller supplied. No row of another table is parsed.
C11_StateTableSelection ==
    (pc = "scraped" /\ scraped.scraper = "state") =>
        IF page = <<>> THEN scraped.result = Err(NoElement("feed data"))
        ELSE /\ scraped.result.ok <=>
                    /\ StateDataRows # <<>>
                    /\ \A k \in 1..Len(StateDataRows) : IsStateRow(StateDataRows[k])
             /\ scraped.result.ok =>
                    /\ Len(scraped.result.val) = Len(StateDataRows)
                    /\ \A k \in 1..Len(StateDataRows) :
                          /\ scraped.result.val[k].id = StateRowId(StateDataRows[k])
                          /\ scraped.result.val[k].state_id = scraped.state_id

\* C11 witness: the first table holds a feed row and a row that cannot be
\* parsed, the second holds another feed row; the call returned the second
\* table's feed alone, under the caller's state.
C11_Witness ==
    /\ pc = "scraped"
    /\ scraped.scraper = "state"
    /\ scraped.state_id = as_u32(9)
    /\ page = <<<<StateRow, BadIdRow>>, <<HeaderRow, OtherStateRow>>>>
    /\ scraped.result.ok
    /\ Len(scraped.result.val) = 1
    /\ scraped.result.val[1].id = as_u32(3)
    /\ scraped.result.val[1].state_id = as_u32(9)

\* the rows the called scraper makes a Feed of
IsFeedRow(row) ==
    IF scraped.scraper = "top" THEN row = TopRow ELSE IsStateRow(row)
\* the data rows of the page's feed table, and the first of them that fails
DataRows == IF FeedTable = <<>> THEN <<>> ELSE Tail(FeedTable)
FailingPositions == {k \in 1..Len(DataRows) : ~IsFeedRow(DataRows[k])}
FirstFailingRow ==
    DataRows[CHOOSE k \in FailingPositions : \A j \in FailingPositions : k <= j]
\* row is the first data row the called scraper could not make a Feed of
StoppedAt(row) ==
    /\ pc = "scraped" /\ HasFeedTable
    /\ FailingPositions # {} /\ FirstFailingRow = row

\* C12: a scrape error names the field that failed. When the trailing path
\* segment of the id+name anchor is not an unsigned integer the error is
\* FailedIntParse tagged for the feed id, not "state id" nor "feed
\* listeners"; a listeners text that is not a number is tagged "feed
\* listeners"; a state link that does not end in a number is tagged "state id".
C12_ErrorNamesFailedField ==
    /\ StoppedAt(BadIdRow) =>
            /\ ~scraped.result.ok
            /\ scraped.result.err.kind = "FailedIntParse"
            /\ scraped.result.err.name \notin {"state id", "feed listeners"}
    /\ StoppedAt(BadListenersRow) =>
            scraped.result = Err(FailedIntParse("feed listeners"))
    /\ (StoppedAt(BadStateIdRow) /\ scraped.scraper = "top") =>
            scraped.result = Err(FailedIntParse("state id"))

\* the listeners and state id parts of C12 alone
C12_ListenersAndStateIdNamed ==
    /\ StoppedAt(BadListenersRow) =>
            scraped.result = Err(FailedIntParse("feed listeners"))
    /\ (StoppedAt(BadStateIdRow) /\ scraped.scraper = "top") =>
            scraped.result = Err(FailedIntParse("state id"))

\* the ids of a Vec<Feed>, in order
IdSeq(s) == [i \in 1..Len(s) |-> s[i].id]
\* what each fetch brought, nothing for a state listing never asked for
TopRecords == top.feeds
StateRecords == IF state.kind = "scraped" THEN state.feeds ELSE <<>>
\* the acquisition with the state records merged before the top records
StateFirst ==
    dedup(sort_by_key(filter_whitelist_blacklist(config, StateRecords \o TopRecords)))

\* C13: the acquisition does not depend on the order of the two fetches. It
\* fails whenever the top fetch or the state fetch failed; otherwise it
\* succeeds, and its feed ids are, in order, the ids got by merging the state
\* records before the top records and then filtering, sorting and
\* deduplicating.
C13_FetchOrderIrrelevant ==
    pc = "done" =>
        IF TopFailed \/ StateFailed THEN ~outcome.ok
        ELSE outcome.ok /\ IdSeq(outcome.val) = IdSeq(StateFirst)

\* C13 witness: both listings carry id 1 under different names and id 2 is
\* fetched before it; merged either way the ids are 1, 2, while the record
\* kept for id 1 differs.
C13_Witness ==
    /\ pc = "done" /\ outcome.ok
    /\ state.kind = "scraped"
    /\ TopRecords[1].id = as_u32(2)
    /\ IdSeq(outcome.val) = <<as_u32(1), as_u32(2)>>
    /\ IdSeq(StateFirst) = <<as_u32(1), as_u32(2)>>
    /\ outcome.val[1].name # StateFirst[1].name

\* the u32 a literal inside 0..2^32-1 denotes (every literal of the modelled
\* documents is below 2^31)
Denoted(num) == [hi |-> num \div 65536, lo |-> num % 65536]

\* the u32 fields read with a default: where each is read from, where it is
\* stored, and its default
C14_Fields ==
    << [category |-> "Misc", key |-> "Minimum Listeners",
        group |-> "misc", field |-> "minimum_listeners",
        default |-> DefaultMisc.minimum_listeners],
       [category |-> "Misc", key |-> "Maximum Feeds To Display",
        group |-> "misc", field |-> "max_feeds", default |-> DefaultMisc.max_feeds],
       [category |-> "Unskewed Average", key |-> "Spikes Required",
        group |-> "unskewed_avg", field |-> "spikes_required",
        default |-> DefaultUnskewedAverage.spikes_required] >>

\* the node the document holds under a category's key
NodeAt(category, key) == yaml_index(yaml_index(config_file.root, category), key)

\* an integer literal inside the range is stored as written
C14_InRange ==
    /\ \A i \in 1..Len(C14_Fields) :
          LET f == C14_Fields[i]
              node == NodeAt(f.category, f.key)
          IN (IsA(node, "Integer") /\ node.int >= 0) =>
                 loaded.val[f.group][f.field] = Denoted(node.int)
    /\ LET node == NodeAt("Misc", "State Feeds ID")
       IN (IsA(node, "Integer") /\ node.int >= 0) =>
              loaded.val.misc.state_feeds_id = Some(Denoted(node.int))

\* an integer literal outside the range fails to parse: the default stands,
\* and State Feeds ID stays unset
C14_OutOfRange ==
    /\ \A i \in 1..Len(C14_Fields) :
          LET f == C14_Fields[i]
              node == NodeAt(f.category, f.key)
          IN (IsA(node, "Integer") /\ node.int < 0) =>
                 loaded.val[f.group][f.field] = f.default
    /\ LET node == NodeAt("Misc", "State Feeds ID")
       IN (IsA(node, "Integer") /\ node.int < 0) =>
              loaded.val.misc.state_feeds_id = None

\* every ID or State ident of the loaded lists holds a number written, inside
\* the range, under that key in an entry of the list it was read from
C14_IdentsAsWritten(category, idents) ==
    LET entries == as_vec_or_empty(yaml_index(config_file.root, category))
        Written(key, u) ==
            \E k \in 1..Len(entries) :
                LET node == yaml_index(entries[k], key)
                IN IsA(node, "Integer") /\ node.int >= 0 /\ u = Denoted(node.int)
    IN \A k \in 1..Len(idents) :
          /\ idents[k].tag = "ID" => Written("ID", idents[k].id)
          /\ idents[k].tag = "State" => Written("State ID", idents[k].state_id)

\* C14: an integer literal for a u32 config field (Minimum Listeners, Maximum
\* Feeds To Display, Spikes Required, State Feeds ID, FeedIdent ID and State
\* ID) is never stored as another number: inside 0..2^32-1 it is stored
\* unchanged, outside it the leaf fails to parse and the field's rule applies.
C14_LiteralStoredAsWritten ==
    (pc = "done" /\ config_file.kind = "document") =>
        /\ C14_InRange
        /\ C14_OutOfRange
        /\ C14_IdentsAsWritten("Blacklist", loaded.val.blacklist)
        /\ C14_IdentsAsWritten("Whitelist", loaded.val.whitelist)
        /\ C14_IdentsAsWritten("Feed Settings",
               [k \in 1..Len(loaded.val.feed_settings) |->
                   loaded.val.feed_settings[k].ident])

\* the part of C14 on literals inside the range
C14_InRangeStoredAsWritten ==
    (pc = "done" /\ config_file.kind = "document") => C14_InRange

====
